---- MODULE Spec2Model ----
(***************************************************************************)
(* Model of the SQL-callable operations of src/extension/src/api.rs:       *)
(* table, create_chunked_table, insert_chunk_into_table, chunk_table,      *)
(* transform_embeddings, encode, init_rag and rag.                         *)
(*                                                                         *)
(* The storage collaborator executes every statement when it is issued:    *)
(* api.rs opens no transaction scope and issues no compensating statement, *)
(* so what a failed call has already written stays written.                *)
(*                                                                         *)
(* chunking::chunk_text, fetch_table_rows, Model::new, init_table,         *)
(* transform and call_chat are called by api.rs but defined elsewhere in   *)
(* the repository; they are modelled from their contracts in spec.md.      *)
(***************************************************************************)
EXTENDS Integers, Sequences, FiniteSets, TLC

\* ------------------------------------------------------------------------
\* Bounds
\* ------------------------------------------------------------------------
MaxRows == 2
MaxLen == 3
MaxChunk == 2
MaxCalls == 2

\* ------------------------------------------------------------------------
\* Values
\* ------------------------------------------------------------------------
\* Option<T>
None == [some |-> FALSE, val |-> 0]
Some(v) == [some |-> TRUE, val |-> v]

Min(a, b) == IF a <= b THEN a ELSE b

\* A text of n characters, all different: "abc..." is <<1, 2, 3, ...>>.
Prefix(n) == [i \in 1..n |-> i]

\* A column value of a fetched row: NULL or a text; a title is NULL or the
\* empty text, a body is NULL or a text of MaxLen characters.
NoText == [some |-> FALSE, val |-> <<>>]
TitleCells == {NoText, Some(Prefix(0))}
BodyCells == {NoText, Some(Prefix(MaxLen))}

\* The primary key of the row fetched at position p; fetch order is not
\* primary-key order and no key equals a surrogate id of the chunk table.
PrimaryKeyOf(p) == 10 + (MaxRows - p)

SourceRow(p, title, body) ==
    [primary_key |-> PrimaryKeyOf(p), title |-> title, body |-> body]

SourceTables ==
    UNION {{[p \in 1..n |-> SourceRow(p, t[p], b[p])] :
               t \in [1..n -> TitleCells], b \in [1..n -> BodyCells]} : n \in 0..MaxRows}

SourceTableName == "docs"
SourceColumns == {"id", "title", "body", "last_updated_at"}
ChunkTableColumns == {"id", "original_id", "chunk"}

\* format!("{}_chunked", table)
chunked_table_name(table) == table \o "_chunked"

ChunkTableNames == {chunked_table_name(SourceTableName)}
JobNames == {"job1"}
KnownModels == {"sentence-transformers/all-MiniLM-L6-v2"}
Transformers == KnownModels \cup {"unknown/model"}

ColumnArgs == {<<"body">>, <<"title", "body">>}

\* chunk_overlap.unwrap_or(200)
DefaultChunkOverlap == 200

\* chunk_size and chunk_overlap arguments: negative, zero and advancing.
ChunkSizes == {-1, 0, MaxChunk}
ChunkOverlaps == {-1, 0, MaxChunk - 1}

\* ------------------------------------------------------------------------
\* Pure functions
\* ------------------------------------------------------------------------
\* `x as usize` of an i32: the value modulo the width of usize.  usize has 64
\* bits in the build; the model keeps 30, the widest power of two the model
\* checker's integers hold, which orders the casts of all modelled values as
\* 64 bits do.
UsizeBits == 30
AsUsize(v) == v % (2 ^ UsizeBits)

RECURSIVE chunk_from(_, _, _, _)
chunk_from(text, start, chunk_size, chunk_overlap) ==
    LET end == Min(start + chunk_size, Len(text))
        piece == SubSeq(text, start + 1, end)
    IN  IF end >= Len(text)
        THEN <<piece>>
        ELSE <<piece>> \o
             chunk_from(text, start + (chunk_size - chunk_overlap),
                        chunk_size, chunk_overlap)

\* chunking::chunk_text: the ordered chunks, or no result when the
\* parameters do not advance.
chunk_text(text, chunk_size, chunk_overlap) ==
    IF chunk_overlap >= chunk_size
    THEN [ok |-> FALSE, chunks |-> <<>>]
    ELSE [ok |-> TRUE, chunks |-> chunk_from(text, 0, chunk_size, chunk_overlap)]

\* ChunksOf with the two size arguments in the wrong order.
ChunksOfSwapped(text, chunk_size, chunk_overlap) ==
    chunk_text(text, AsUsize(chunk_overlap), AsUsize(chunk_size))

\* chunking::chunk_text(text, chunk_size as usize, chunk_overlap as usize)
ChunksOf(text, chunk_size, chunk_overlap) ==
    chunk_text(text, AsUsize(chunk_size), AsUsize(chunk_overlap))

PanicItem(rpos, cpos) ==
    [kind |-> "panic", original_id |-> 0, chunk |-> <<>>,
     rpos |-> rpos, cpos |-> cpos, kpos |-> 0]

InsertItems(row, rpos, cpos, chunks) ==
    [k \in 1..Len(chunks) |->
        [kind |-> "insert", original_id |-> row.primary_key, chunk |-> chunks[k],
         rpos |-> rpos, cpos |-> cpos, kpos |-> k]]

\* CellItems without the test for NULL: a NULL column is chunked as the
\* empty text.
CellItemsNullAsEmpty(row, rpos, columns, cpos, chunk_size, chunk_overlap) ==
    LET cell == row[columns[cpos]]
        res == ChunksOf(cell.val, chunk_size, chunk_overlap)
    IN  IF ~res.ok THEN <<PanicItem(rpos, cpos)>>
        ELSE InsertItems(row, rpos, cpos, res.chunks)

\* The statements of one (row, column) of the loop of chunk_table: one
\* insert per chunk, or the failure of chunk_text.
CellItems(row, rpos, columns, cpos, chunk_size, chunk_overlap) ==
    LET cell == row[columns[cpos]]
        res == ChunksOf(cell.val, chunk_size, chunk_overlap)
    IN  IF ~cell.some THEN <<>>
        ELSE IF ~res.ok THEN <<PanicItem(rpos, cpos)>>
        ELSE InsertItems(row, rpos, cpos, res.chunks)

RECURSIVE RowItems(_, _, _, _, _, _)
RowItems(row, rpos, columns, cpos, chunk_size, chunk_overlap) ==
    IF cpos > Len(columns) THEN <<>>
    ELSE CellItems(row, rpos, columns, cpos, chunk_size, chunk_overlap) \o
         RowItems(row, rpos, columns, cpos + 1, chunk_size, chunk_overlap)

RECURSIVE TableItems(_, _, _, _, _)
TableItems(rows, rpos, columns, chunk_size, chunk_overlap) ==
    IF rpos > Len(rows) THEN <<>>
    ELSE RowItems(rows[rpos], rpos, columns, 1, chunk_size, chunk_overlap) \o
         TableItems(rows, rpos + 1, columns, chunk_size, chunk_overlap)

RECURSIVE ColumnItems(_, _, _, _, _, _)
ColumnItems(rows, rpos, columns, cpos, chunk_size, chunk_overlap) ==
    IF rpos > Len(rows) THEN <<>>
    ELSE CellItems(rows[rpos], rpos, columns, cpos, chunk_size, chunk_overlap) \o
         ColumnItems(rows, rpos + 1, columns, cpos, chunk_size, chunk_overlap)

RECURSIVE ColumnMajorItems(_, _, _, _, _)
ColumnMajorItems(rows, columns, cpos, chunk_size, chunk_overlap) ==
    IF cpos > Len(columns) THEN <<>>
    ELSE ColumnItems(rows, 1, columns, cpos, chunk_size, chunk_overlap) \o
         ColumnMajorItems(rows, columns, cpos + 1, chunk_size, chunk_overlap)

\* Plan with the two outer loops exchanged: all rows of the first column,
\* then all rows of the next.
PlanColumnMajor(rows, columns, chunk_size, chunk_overlap) ==
    ColumnMajorItems(rows, columns, 1, chunk_size, chunk_overlap)

\* The statements the nested loops of chunk_table issue, in the order they
\* are issued.
Plan(rows, columns, chunk_size, chunk_overlap) ==
    TableItems(rows, 1, columns, chunk_size, chunk_overlap)

\* create_chunked_table as CREATE TABLE IF NOT EXISTS: an existing relation
\* is no error.
create_chunked_table_if_not_exists(tbls, table_name, permitted) ==
    IF ~permitted
    THEN [ok |-> FALSE, tables |-> tbls]
    ELSE IF tbls[table_name].exists
    THEN [ok |-> TRUE, tables |-> tbls]
    ELSE [ok |-> TRUE,
          tables |-> [tbls EXCEPT ![table_name] = [exists |-> TRUE, rows |-> <<>>]]]

\* CREATE TABLE {schema}.{table_name} (id SERIAL PRIMARY KEY, original_id
\* INTEGER, chunk TEXT): refused when the relation exists or the storage
\* denies it.
create_chunked_table(tbls, table_name, permitted) ==
    IF tbls[table_name].exists \/ ~permitted
    THEN [ok |-> FALSE, tables |-> tbls]
    ELSE [ok |-> TRUE,
          tables |-> [tbls EXCEPT ![table_name] = [exists |-> TRUE, rows |-> <<>>]]]

\* INSERT INTO {schema}.{table_name} (original_id, chunk) VALUES ($1, $2);
\* id is the next value of the table's serial.
insert_chunk_into_table(tbls, table_name, chunk, original_id, accepted) ==
    IF ~tbls[table_name].exists \/ ~accepted
    THEN [ok |-> FALSE, tables |-> tbls]
    ELSE [ok |-> TRUE,
          tables |-> [tbls EXCEPT ![table_name].rows =
                         Append(@, [id |-> Len(@) + 1,
                                    original_id |-> original_id,
                                    chunk |-> chunk])]]

\* ------------------------------------------------------------------------
\* State
\* ------------------------------------------------------------------------
VARIABLES
    source,     \* the rows of the input table, in fetch order
    tables,     \* the chunk tables of the schema
    jobs,       \* the persisted Job registry
    op,         \* the operation in progress
    pc,         \* where the operation is
    args,       \* the arguments of table / init_rag
    ct,         \* the arguments of the chunk_table invocation
    pos,        \* statements of the loop executed so far
    log,        \* the inserts of this invocation, in the order they were made
    created,    \* this invocation created its output table
    written,    \* Job records this invocation persisted
    err,        \* the outcome returned to the caller
    calls,      \* invocations made
    ck,         \* one application of the chunker
    emb,        \* one request to encode and to transform_embeddings
    rag         \* one invocation of rag

provVars == <<source, tables, jobs, op, pc, args, ct, pos, log, created,
              written, err, calls>>
vars == <<source, tables, jobs, op, pc, args, ct, pos, log, created, written,
          err, calls, ck, emb, rag>>

NoArgs == [table |-> "", columns |-> <<>>, job_name |-> "", primary_key |-> "",
           update_col |-> [some |-> FALSE, val |-> ""], chunk_size |-> None,
           chunk_overlap |-> None]
NoJob == [job_name |-> "", table |-> "", columns |-> <<>>, primary_key |-> "",
          update_col |-> [some |-> FALSE, val |-> ""]]
NoCt == [input_table |-> "", columns |-> <<>>, chunk_size |-> 0,
         chunk_overlap |-> 0, output_table |-> ""]

InitProv ==
    /\ tables = [n \in ChunkTableNames |-> [exists |-> FALSE, rows |-> <<>>]]
    /\ jobs = [n \in JobNames |-> [some |-> FALSE, val |-> NoJob]]
    /\ op = "none"
    /\ pc = "idle"
    /\ args = NoArgs
    /\ ct = NoCt
    /\ pos = 0
    /\ log = <<>>
    /\ created = FALSE
    /\ written = 0
    /\ err = "none"
    /\ calls = 0

Returned == pc \in {"idle", "done", "failed"}

Enter(o) ==
    /\ Returned
    /\ calls < MaxCalls
    /\ calls' = calls + 1
    /\ op' = o
    /\ pos' = 0
    /\ log' = <<>>
    /\ created' = FALSE
    /\ written' = 0
    /\ err' = "none"

Fail(e) ==
    /\ pc' = "failed"
    /\ err' = e

\* ------------------------------------------------------------------------
\* chunk_table
\* ------------------------------------------------------------------------
ChunkTableCall ==
    \E columns \in ColumnArgs, chunk_size \in ChunkSizes,
       chunk_overlap \in ChunkOverlaps, output_table \in ChunkTableNames :
        /\ Enter("chunk_table")
        /\ ct' = [input_table |-> SourceTableName, columns |-> columns,
                  chunk_size |-> chunk_size, chunk_overlap |-> chunk_overlap,
                  output_table |-> output_table]
        /\ args' = NoArgs
        /\ pc' = "fetch"
        /\ UNCHANGED <<source, tables, jobs, ck, emb, rag>>

\* get_pg_conn().await? and fetch_table_rows(...).await?; the input table
\* has no writer, so the fetched rows are source.
FetchRows ==
    /\ pc = "fetch"
    /\ \E ok \in BOOLEAN :
        IF ok THEN pc' = "create" /\ err' = err ELSE Fail("ConnectionError")
    /\ UNCHANGED <<source, tables, jobs, op, args, ct, pos, log, created,
                   written, calls, ck, emb, rag>>

\* create_chunked_table(output_table, columns.clone(), schema)?
CreateTable ==
    /\ pc = "create"
    /\ \E permitted \in BOOLEAN :
        LET res == create_chunked_table(tables, ct.output_table, permitted)
        IN  IF res.ok
            THEN /\ tables' = res.tables
                 /\ created' = TRUE
                 /\ pc' = "insert"
                 /\ err' = err
            ELSE /\ Fail("SchemaError")
                 /\ UNCHANGED <<tables, created>>
    /\ UNCHANGED <<source, jobs, op, args, ct, pos, log, written, calls,
                   ck, emb, rag>>

ThePlan == Plan(source, ct.columns, ct.chunk_size, ct.chunk_overlap)

\* One statement of the loop: chunk_text of the next cell fails, or the next
\* chunk is inserted, or its insert fails.
LoopStep ==
    /\ pc = "insert"
    /\ pos < Len(ThePlan)
    /\ LET item == ThePlan[pos + 1]
       IN  IF item.kind = "panic"
           THEN /\ Fail("InputValidationError")
                /\ UNCHANGED <<tables, pos, log>>
           ELSE \E accepted \in BOOLEAN :
                LET res == insert_chunk_into_table(tables, ct.output_table,
                               item.chunk, item.original_id, accepted)
                IN  IF res.ok
                    THEN /\ tables' = res.tables
                         /\ pos' = pos + 1
                         /\ log' = Append(log,
                                [id |-> res.tables[ct.output_table].rows[
                                            Len(res.tables[ct.output_table].rows)].id,
                                 rpos |-> item.rpos, cpos |-> item.cpos,
                                 kpos |-> item.kpos])
                         /\ UNCHANGED <<pc, err>>
                    ELSE /\ Fail("SchemaError")
                         /\ UNCHANGED <<tables, pos, log>>
    /\ UNCHANGED <<source, jobs, op, args, ct, created, written, calls,
                   ck, emb, rag>>

\* The loop is over: chunk_table returns its message; table() goes on to
\* Model::new.
LoopEnd ==
    /\ pc = "insert"
    /\ pos = Len(ThePlan)
    /\ pc' = IF op = "chunk_table" THEN "done" ELSE "model"
    /\ UNCHANGED <<source, tables, jobs, op, args, ct, pos, log, created,
                   written, err, calls, ck, emb, rag>>

\* ------------------------------------------------------------------------
\* table and init_rag
\* ------------------------------------------------------------------------
unwrap_or(opt, default) == IF opt.some THEN opt.val ELSE default

\* processed_table that keeps the name of the original table.
processed_table_unchunked(a) == a.table

\* let processed_table = if let Some(chunk_size) = chunk_size { ... }
processed_table(a) ==
    IF a.chunk_size.some THEN chunked_table_name(a.table) ELSE a.table

TableCall ==
    \E columns \in ColumnArgs,
       chunk_size \in {None, Some(MaxChunk)},
       chunk_overlap \in {None, Some(MaxChunk - 1)} :
        /\ Enter("table")
        /\ args' = [table |-> SourceTableName, columns |-> columns,
                    job_name |-> "job1", primary_key |-> "id",
                    update_col |-> Some("last_updated_at"),
                    chunk_size |-> chunk_size, chunk_overlap |-> chunk_overlap]
        /\ IF chunk_size.some
           THEN /\ ct' = [input_table |-> SourceTableName, columns |-> columns,
                          chunk_size |-> chunk_size.val,
                          chunk_overlap |-> unwrap_or(chunk_overlap,
                                                      DefaultChunkOverlap),
                          output_table |-> chunked_table_name(SourceTableName)]
                /\ pc' = "fetch"
           ELSE /\ ct' = NoCt
                /\ pc' = "model"
        /\ UNCHANGED <<source, tables, jobs, ck, emb, rag>>

InitRagCall ==
    \E column \in {"title", "body"} :
        /\ Enter("init_rag")
        /\ args' = [table |-> SourceTableName, columns |-> <<column>>,
                    job_name |-> "job1", primary_key |-> "id",
                    update_col |-> [some |-> FALSE, val |-> ""],
                    chunk_size |-> None, chunk_overlap |-> None]
        /\ ct' = NoCt
        /\ pc' = "model"
        /\ UNCHANGED <<source, tables, jobs, ck, emb, rag>>

\* Model::new(transformer)?: the transformer argument is drawn where it is
\* used.
ModelNew ==
    /\ pc = "model"
    /\ \E transformer \in Transformers :
        IF transformer \in KnownModels
        THEN pc' = "register" /\ err' = err
        ELSE Fail("ModelError")
    /\ UNCHANGED <<source, tables, jobs, op, args, ct, pos, log, created,
                   written, calls, ck, emb, rag>>

\* The Job that table / init_rag hands to init_table.
JobOf(a) ==
    [job_name |-> a.job_name, table |-> processed_table(a),
     columns |-> a.columns, primary_key |-> a.primary_key,
     update_col |-> a.update_col]

\* init_table: rejects the configuration or persists the Job under its name.
init_table(registry, job, valid) ==
    IF ~valid
    THEN [ok |-> FALSE, jobs |-> registry]
    ELSE [ok |-> TRUE,
          jobs |-> [registry EXCEPT ![job.job_name] = [some |-> TRUE, val |-> job]]]

InitTable ==
    /\ pc = "register"
    /\ \E valid \in BOOLEAN :
        LET res == init_table(jobs, JobOf(args), valid)
        IN  IF res.ok
            THEN /\ jobs' = res.jobs
                 /\ written' = written + 1
                 /\ pc' = "done"
                 /\ err' = err
            ELSE /\ Fail("ConfigError")
                 /\ UNCHANGED <<jobs, written>>
    /\ UNCHANGED <<source, tables, op, args, ct, pos, log, created, calls,
                   ck, emb, rag>>

\* ------------------------------------------------------------------------
\* The chunker applied to one text
\* ------------------------------------------------------------------------
ChunkerMaxLen == 10
ChunkerMaxSize == 5

NoChunks == [ok |-> FALSE, chunks |-> <<>>]
IdleCk == [phase |-> "idle", text |-> <<>>, chunk_size |-> 0,
           chunk_overlap |-> 0, res |-> NoChunks]

InitChunker ==
    ck \in {[phase |-> "input", text |-> Prefix(n), chunk_size |-> s,
             chunk_overlap |-> o, res |-> NoChunks] :
               n \in 0..ChunkerMaxLen, s \in (-1)..ChunkerMaxSize,
               o \in (-1)..ChunkerMaxSize}

\* let chunks = chunking::chunk_text(text, chunk_size as usize, ...)
ApplyChunker ==
    /\ ck.phase = "input"
    /\ ck' = [ck EXCEPT !.phase = "output",
                        !.res = ChunksOf(ck.text, ck.chunk_size, ck.chunk_overlap)]
    /\ UNCHANGED <<source, tables, jobs, op, pc, args, ct, pos, log, created,
                   written, err, calls, emb, rag>>

\* ------------------------------------------------------------------------
\* encode and transform_embeddings
\* ------------------------------------------------------------------------
MaxVectors == 2

Vectors == {<<1>>, <<2>>}
Responses ==
    {[ok |-> FALSE, vectors |-> <<>>]} \cup
    UNION {{[ok |-> TRUE, vectors |-> v] : v \in [1..n -> Vectors]} :
              n \in 0..MaxVectors}

Pending == [kind |-> "pending", val |-> <<>>]
IdleEmb == [phase |-> "idle", input |-> "", model |-> "", api_key |-> None,
            response |-> [ok |-> FALSE, vectors |-> <<>>],
            encode_out |-> Pending, te_out |-> Pending]

InitEmbed ==
    emb \in {[phase |-> "request", input |-> i, model |-> m, api_key |-> k,
              response |-> r, encode_out |-> Pending, te_out |-> Pending] :
                i \in {"", "hello"}, m \in Transformers,
                k \in {None, Some(1)}, r \in Responses}

\* transform: the vectors the provider returned for the one input; a
\* provider failure does not return.
transform(input, model, api_key, response) ==
    [panic |-> ~response.ok, vectors |-> response.vectors]

\* Vec::remove(0): the first element, or a panic on an empty vector.
remove0(v) ==
    IF Len(v) = 0 THEN [kind |-> "Panic", val |-> <<>>]
    ELSE [kind |-> "Ok", val |-> v[1]]

\* let model = Model::new(&model_name)?;
\* Ok(transform(input, &model, api_key).remove(0))
transform_embeddings(input, model_name, api_key, response) ==
    IF model_name \notin KnownModels
    THEN [kind |-> "Err", val |-> <<>>]
    ELSE LET t == transform(input, model_name, api_key, response)
         IN  IF t.panic THEN [kind |-> "Panic", val |-> <<>>]
             ELSE remove0(t.vectors)

\* let model = Model::new(&model)?;
\* Ok(transform(input, &model, api_key).remove(0))
encode(input, model, api_key, response) ==
    IF model \notin KnownModels
    THEN [kind |-> "Err", val |-> <<>>]
    ELSE LET t == transform(input, model, api_key, response)
         IN  IF t.panic THEN [kind |-> "Panic", val |-> <<>>]
             ELSE remove0(t.vectors)

TransformEmbeddings ==
    /\ emb.phase = "request"
    /\ emb.te_out = Pending
    /\ emb' = [emb EXCEPT !.te_out =
                  transform_embeddings(emb.input, emb.model, emb.api_key,
                                       emb.response)]
    /\ UNCHANGED <<source, tables, jobs, op, pc, args, ct, pos, log, created,
                   written, err, calls, ck, rag>>

Encode ==
    /\ emb.phase = "request"
    /\ emb.encode_out = Pending
    /\ emb' = [emb EXCEPT !.encode_out =
                  encode(emb.input, emb.model, emb.api_key, emb.response)]
    /\ UNCHANGED <<source, tables, jobs, op, pc, args, ct, pos, log, created,
                   written, err, calls, ck, rag>>

\* ------------------------------------------------------------------------
\* rag
\* ------------------------------------------------------------------------
MaxContext == 2
MaxDoc == 2
MaxWindow == 4
MaxQuery == 1

KnownChatModels == {"tembo/meta-llama/Meta-Llama-3-8B-Instruct"}
ChatModels == KnownChatModels \cup {"unknown/chat"}

\* The fixed text of the question_answer template, in the units the context
\* window is measured in.
SysTemplateLen == 1
UserTemplateLen == 1

RECURSIVE SumSeq(_)
SumSeq(s) == IF Len(s) = 0 THEN 0 ELSE Head(s) + SumSeq(Tail(s))

\* The documents a search can return, best match first, by size.
SearchResults(num_context) ==
    UNION {[1..n -> 1..MaxDoc] : n \in 0..num_context}

\* The template rendered with the context rows and the query.
render(ctx, qlen) ==
    [sys_rendered |-> SysTemplateLen,
     user_rendered |-> UserTemplateLen + qlen + SumSeq(ctx)]

PromptSize(p) == p.sys_rendered + p.user_rendered

NoPrompt == [sys_rendered |-> 0, user_rendered |-> 0]
IdleRag == [stage |-> "Idle", force_trim |-> FALSE, window |-> 0, qlen |-> 0,
            num_context |-> 0, results |-> <<>>, ctx |-> <<>>,
            prompt |-> NoPrompt, error |-> "none", client_calls |-> 0,
            searched |-> FALSE, rendered |-> FALSE]

\* RagCall that hands the query to the completion client as generate does,
\* without call_chat.
RagCallDirect ==
    /\ rag.stage = "Idle"
    /\ \E chat_model \in ChatModels, force_trim \in BOOLEAN,
          num_context \in 0..MaxContext, qlen \in 0..MaxQuery,
          window \in 0..MaxWindow :
        rag' = [rag EXCEPT
                   !.stage = IF chat_model \in KnownChatModels
                             THEN "Completing" ELSE "Failed",
                   !.error = IF chat_model \in KnownChatModels
                             THEN "none" ELSE "ModelError",
                   !.prompt = [sys_rendered |-> 0, user_rendered |-> qlen],
                   !.force_trim = force_trim, !.num_context = num_context,
                   !.qlen = qlen, !.window = window]
    /\ UNCHANGED <<source, tables, jobs, op, pc, args, ct, pos, log, created,
                   written, err, calls, ck, emb>>

\* rag: Model::new(&chat_model)? and then call_chat(...)?, which starts with
\* the search.
RagCall ==
    /\ rag.stage = "Idle"
    /\ \E chat_model \in ChatModels, force_trim \in BOOLEAN,
          num_context \in 0..MaxContext, qlen \in 0..MaxQuery,
          window \in 0..MaxWindow :
        rag' = [rag EXCEPT
                   !.stage = IF chat_model \in KnownChatModels
                             THEN "Searching" ELSE "Failed",
                   !.error = IF chat_model \in KnownChatModels
                             THEN "none" ELSE "ModelError",
                   !.force_trim = force_trim, !.num_context = num_context,
                   !.qlen = qlen, !.window = window]
    /\ UNCHANGED <<source, tables, jobs, op, pc, args, ct, pos, log, created,
                   written, err, calls, ck, emb>>

\* call_chat, Searching: the Search Engine for the agent's job.
RagSearch ==
    /\ rag.stage = "Searching"
    /\ \/ \E results \in SearchResults(rag.num_context) :
            rag' = [rag EXCEPT !.stage = "Rendering", !.results = results,
                               !.ctx = results, !.searched = TRUE]
       \/ rag' = [rag EXCEPT !.stage = "Failed", !.error = "SearchError"]
    /\ UNCHANGED <<source, tables, jobs, op, pc, args, ct, pos, log, created,
                   written, err, calls, ck, emb>>

\* call_chat, Rendering: the template of the task, or no such template.
RagRender ==
    /\ rag.stage = "Rendering"
    /\ \/ rag' = [rag EXCEPT
                     !.stage = IF rag.force_trim THEN "Trimming" ELSE "Completing",
                     !.prompt = render(rag.ctx, rag.qlen),
                     !.rendered = TRUE]
       \/ rag' = [rag EXCEPT !.stage = "Failed", !.error = "ConfigError"]
    /\ UNCHANGED <<source, tables, jobs, op, pc, args, ct, pos, log, created,
                   written, err, calls, ck, emb>>

\* call_chat, Trimming: drop the lowest-ranked row and render again until
\* the prompt fits or no row is left.
RagTrim ==
    /\ rag.stage = "Trimming"
    /\ rag' = IF PromptSize(rag.prompt) <= rag.window
              THEN [rag EXCEPT !.stage = "Completing"]
              ELSE IF Len(rag.ctx) > 0
              THEN [rag EXCEPT
                       !.ctx = SubSeq(rag.ctx, 1, Len(rag.ctx) - 1),
                       !.prompt = render(SubSeq(rag.ctx, 1, Len(rag.ctx) - 1),
                                         rag.qlen)]
              ELSE [rag EXCEPT !.stage = "Failed",
                               !.error = "ContextOverflowError"]
    /\ UNCHANGED <<source, tables, jobs, op, pc, args, ct, pos, log, created,
                   written, err, calls, ck, emb>>

\* call_chat, Completing: the Chat Completion Client, then the response as
\* JSON.
RagComplete ==
    /\ rag.stage = "Completing"
    /\ \E ok \in BOOLEAN :
        rag' = [rag EXCEPT !.stage = IF ok THEN "Done" ELSE "Failed",
                           !.error = IF ok THEN "none" ELSE "ProviderError",
                           !.client_calls = @ + 1]
    /\ UNCHANGED <<source, tables, jobs, op, pc, args, ct, pos, log, created,
                   written, err, calls, ck, emb>>

\* ------------------------------------------------------------------------
\* Specifications
\* ------------------------------------------------------------------------
Init ==
    /\ source \in SourceTables
    /\ InitProv
    /\ ck = IdleCk
    /\ emb = IdleEmb
    /\ rag = IdleRag

Next ==
    \/ ChunkTableCall
    \/ TableCall
    \/ InitRagCall
    \/ FetchRows
    \/ CreateTable
    \/ LoopStep
    \/ LoopEnd
    \/ ModelNew
    \/ InitTable

Spec == Init /\ [][Next]_vars

InitC ==
    /\ source = <<>>
    /\ InitProv
    /\ InitChunker
    /\ emb = IdleEmb
    /\ rag = IdleRag

NextChunker == ApplyChunker

SpecChunker == InitC /\ [][NextChunker]_vars

InitE ==
    /\ source = <<>>
    /\ InitProv
    /\ ck = IdleCk
    /\ InitEmbed
    /\ rag = IdleRag

NextEmbed == Encode \/ TransformEmbeddings

SpecEmbed == InitE /\ [][NextEmbed]_vars

InitR ==
    /\ source = <<>>
    /\ InitProv
    /\ ck = IdleCk
    /\ emb = IdleEmb
    /\ rag = IdleRag

NextRag == RagCall \/ RagSearch \/ RagRender \/ RagTrim \/ RagComplete

SpecRag == InitR /\ [][NextRag]_vars

\* ------------------------------------------------------------------------
\* Properties
\* ------------------------------------------------------------------------
OutputRows == tables[ct.output_table].rows

\* chunk_table has returned Ok to its caller (the SQL caller, or table()).
ChunkTableOk ==
    \/ op = "chunk_table" /\ pc = "done"
    \/ /\ op = "table"
       /\ args.chunk_size.some
       /\ \/ pc \in {"model", "register", "done"}
          \/ pc = "failed" /\ err \in {"ModelError", "ConfigError"}

\* chunk_table has returned, with either outcome.
ChunkTableOver ==
    /\ op \in {"chunk_table", "table"}
    /\ ct # NoCt
    /\ pc \notin {"fetch", "create", "insert"}

HasText(row) == \E c \in 1..Len(ct.columns) : row[ct.columns[c]].some

KeysWithText ==
    {source[p].primary_key : p \in {q \in 1..Len(source) : HasText(source[q])}}

OriginalIds == {OutputRows[i].original_id : i \in 1..Len(OutputRows)}

\* C1: after a successful chunk_table the original_id values of the output
\* table are exactly the primary keys of the source rows that had non-null
\* text in a chunked column.
C1_OriginalIds == ChunkTableOk => OriginalIds = KeysWithText

\* A successful chunk_table over a source with a row without text and a row
\* whose text gave several chunks.
C1_Witness ==
    /\ ChunkTableOk
    /\ \E p \in 1..Len(source) : ~HasText(source[p])
    /\ OriginalIds # {}
    /\ Cardinality(OriginalIds) < Len(OutputRows)

LexLess(a, b) ==
    \/ a.rpos < b.rpos
    \/ a.rpos = b.rpos /\ a.cpos < b.cpos
    \/ a.rpos = b.rpos /\ a.cpos = b.cpos /\ a.kpos < b.kpos

\* C2: the rows of one chunk_table are inserted in lexicographic order of
\* (row position, column position, chunk position); the surrogate ids grow
\* in that order, the chunks of one source row are contiguous, and each
\* inserted row carries the primary key of the source row it came from.
C2_InsertionOrder ==
    /\ \A i, j \in 1..Len(log) :
          i < j => LexLess(log[i], log[j]) /\ log[i].id < log[j].id
    /\ \A i, j, k \in 1..Len(log) :
          (i < j /\ j < k /\ log[i].rpos = log[k].rpos)
              => log[j].rpos = log[i].rpos
    /\ \A i \in 1..Len(log) :
          \E n \in 1..Len(OutputRows) :
              /\ OutputRows[n].id = log[i].id
              /\ OutputRows[n].original_id = source[log[i].rpos].primary_key

\* Two source rows, two columns and two chunks of one text have been
\* inserted.
C2_Witness ==
    /\ \E i, j \in 1..Len(log) : log[i].rpos # log[j].rpos
    /\ \E i, j \in 1..Len(log) :
          log[i].rpos = log[j].rpos /\ log[i].cpos # log[j].cpos
    /\ \E i \in 1..Len(log) : log[i].kpos > 1

\* C3: a failed chunk_table or table() leaves nothing behind: the chunk
\* table the call created does not exist and the call persisted no Job.
C3_NoPartialArtifact ==
    pc = "failed" =>
        /\ created => ~tables[ct.output_table].exists
        /\ written = 0

NonAdvancing == ct.chunk_overlap >= ct.chunk_size \/ ct.chunk_size <= 0

\* C4: a chunk_table (or the chunking of table()) with chunk_overlap >=
\* chunk_size or chunk_size <= 0 that the storage did not stop ends in an
\* input-validation error.
C4_RejectsNonAdvancing ==
    (ChunkTableOver /\ NonAdvancing /\ err \notin {"ConnectionError", "SchemaError"})
        => (pc = "failed" /\ err = "InputValidationError")

CeilDiv(a, b) == (a + b - 1) \div b

RECURSIVE Reassemble(_, _)
Reassemble(chunks, overlap) ==
    IF Len(chunks) = 0 THEN <<>>
    ELSE IF Len(chunks) = 1 THEN chunks[1]
    ELSE Reassemble(SubSeq(chunks, 1, Len(chunks) - 1), overlap) \o
         SubSeq(chunks[Len(chunks)], overlap + 1, Len(chunks[Len(chunks)]))

\* C5: for a text T, chunk_size S > 0 and 0 <= overlap O < S the chunks have
\* at most S characters, there is one chunk (T itself) when len(T) <= S and
\* ceil((len(T) - O) / (S - O)) otherwise, consecutive chunks share exactly
\* O characters, and the chunks without their overlaps give T.
C5_ChunkerContract ==
    (ck.phase = "output" /\ ck.chunk_size > 0 /\ ck.chunk_overlap >= 0
        /\ ck.chunk_overlap < ck.chunk_size) =>
    LET T == ck.text
        S == ck.chunk_size
        O == ck.chunk_overlap
        c == ck.res.chunks
    IN  /\ ck.res.ok
        /\ \A i \in 1..Len(c) : Len(c[i]) <= S
        /\ Len(T) <= S => c = <<T>>
        /\ Len(T) > S => Len(c) = CeilDiv(Len(T) - O, S - O)
        /\ \A i \in 1..(Len(c) - 1) :
              /\ Len(c[i + 1]) > O
              /\ SubSeq(c[i], Len(c[i]) - O + 1, Len(c[i])) = SubSeq(c[i + 1], 1, O)
              /\ c[i][Len(c[i])] # c[i + 1][O + 1]
        /\ Reassemble(c, O) = T

\* "abcdefghij" with chunk_size 4 and overlap 2 gave abcd, cdef, efgh, ghij.
C5_Witness ==
    /\ ck.phase = "output"
    /\ ck.text = Prefix(10)
    /\ ck.chunk_size = 4
    /\ ck.chunk_overlap = 2
    /\ ck.res.chunks = <<<<1, 2, 3, 4>>, <<3, 4, 5, 6>>, <<5, 6, 7, 8>>,
                         <<7, 8, 9, 10>>>>

EmbedOutcomeOk(out) ==
    /\ out.kind = "Ok" =>
          /\ emb.response.ok
          /\ Len(emb.response.vectors) = 1
          /\ out.val = emb.response.vectors[1]
    /\ (out # Pending /\ (Len(emb.response.vectors) = 0
                            \/ emb.model \notin KnownModels))
          => out.kind \in {"Err", "Panic"}

\* C6: encode and transform_embeddings return a vector only when the
\* provider returned exactly one vector; with zero vectors or an unknown
\* model they end in an error; and the two give the same outcome.
C6_ExactlyOneVector ==
    /\ EmbedOutcomeOk(emb.encode_out)
    /\ EmbedOutcomeOk(emb.te_out)
    /\ (emb.encode_out # Pending /\ emb.te_out # Pending)
          => emb.encode_out = emb.te_out

IsPrefix(s, t) == Len(s) <= Len(t) /\ s = SubSeq(t, 1, Len(s))

C8_ExistingTableUntouched ==
    [][(pc = "create" /\ tables[ct.output_table].exists) =>
          /\ pc' = "failed"
          /\ err' = "SchemaError"
          /\ tables' = tables
          /\ log' = <<>>
          /\ ~created']_vars

\* A second invocation failed at the creation of a table that has rows.
C8_Witness ==
    /\ calls = 2
    /\ pc = "failed"
    /\ err = "SchemaError"
    /\ ~created
    /\ log = <<>>
    /\ tables[ct.output_table].exists
    /\ Len(OutputRows) > 0

\* C9: table() writes at most one Job per call; with chunk_size the Job is
\* written only after chunk_table succeeded and names "<table>_chunked";
\* without chunk_size nothing is chunked and the Job names the original
\* table; a failed chunking writes no Job.
C9_ProvisioningOrder ==
    op = "table" =>
        /\ written <= 1
        /\ ~args.chunk_size.some => (~created /\ log = <<>> /\ ct = NoCt)
        /\ written = 1 =>
              /\ pc = "done"
              /\ jobs[args.job_name].some
              /\ jobs[args.job_name].val.table =
                    IF args.chunk_size.some THEN "docs_chunked" ELSE "docs"
        /\ (written = 1 /\ args.chunk_size.some) =>
              /\ created
              /\ tables["docs_chunked"].exists
              /\ pos = Len(ThePlan)
              /\ Len(log) = Len(ThePlan)
        /\ (pc = "failed" /\ err \in {"ConnectionError", "SchemaError",
                                       "InputValidationError"}) => written = 0

\* table() with chunk_size registered its Job after inserting chunks.
C9_Witness ==
    /\ op = "table"
    /\ pc = "done"
    /\ args.chunk_size.some
    /\ written = 1
    /\ Len(log) > 1

TableColumns(t) == IF t = SourceTableName THEN SourceColumns ELSE ChunkTableColumns

\* C10: the columns, primary_key and update_col of every persisted Job are
\* columns of the table the Job names.
C10_JobMatchesTable ==
    \A n \in JobNames :
        jobs[n].some =>
            LET job == jobs[n].val
            IN  /\ \A i \in 1..Len(job.columns) :
                      job.columns[i] \in TableColumns(job.table)
                /\ job.primary_key \in TableColumns(job.table)
                /\ job.update_col.some =>
                      job.update_col.val \in TableColumns(job.table)
====
